---------------------------- MODULE Spec2Model ----------------------------
(***************************************************************************)
(* A model of ArduinoTrace.h: the compile-time path trimmer (string_maker  *)
(* / make_string), the build switches, the call-site macros, the trace     *)
(* emitter (Printer) and the stream initializer (Initializer).             *)
(*                                                                         *)
(* Characters are one-character strings; a character array is a sequence   *)
(* of characters that ends with NUL, as a C string literal does.           *)
(***************************************************************************)
EXTENDS Integers, Sequences, FiniteSets, TLC

\* Longest source literal (without its terminator) given to the path trimmer.
MaxLen == 3

NUL == "NUL"
Separators == {"/", "\\"}
Alphabet == {"/", "\\", "a", "b"}

\* The define state of a build switch: left unset, or set on the command line.
Switches == {"unset", "0", "1"}

VARIABLES
  fullpathDef,      \* how the build sets ARDUINOTRACE_ENABLE_FULLPATH
  original,         \* the literal make_string was first asked to trim
  source,           \* TSourceString::data(): the array being trimmed
  remainingLength,  \* string_maker's remainingLength
  collectedChars,   \* string_maker's collectedChars...
  inst,             \* "idle", "instantiating", "done", "ambiguous"
  result,           \* string<...>::data() of string_maker<...>::result
  firstResult,      \* the result of the first trimming, once trimmed again
  retrimmed,        \* whether make_string was applied to its own result
  enableDef,        \* how the build sets ARDUINOTRACE_ENABLE
  file,             \* __FILE__ of the translation unit
  unit,             \* the call sites translated so far, in source order
  calls,            \* the statements the call sites expanded to
  build,            \* "ok", or "error" once a call site is ill-formed
  phase,            \* "translate", then "run"
  ip,               \* the index in calls of the statement being executed
  pc,               \* the position inside that statement
  serialOps,        \* every operation performed on the stream, in order
  pending,          \* text written to the stream and not yet flushed
  wire,             \* text the stream has transmitted
  ready,            \* what the stream's readiness query answers
  polled            \* whether the running Initializer has polled in vain

trimVars == <<original, source, remainingLength, collectedChars,
              inst, result, firstResult, retrimmed>>

pipeVars == <<enableDef, file, unit, calls, build, phase, ip, pc, serialOps,
              pending, wire, ready, polled>>

vars == <<fullpathDef, trimVars, pipeVars>>

-----------------------------------------------------------------------------
(* Character arrays *)

\* A string literal: its characters and the terminator.
Literal(s) == s \o <<NUL>>

\* The text a reader of a char array sees: the characters before the first NUL.
CStr(buf) ==
  LET nuls == {i \in 1..Len(buf) : buf[i] = NUL}
      first == CHOOSE i \in nuls : \A j \in nuls : i <= j
  IN  IF nuls = {} THEN buf ELSE SubSeq(buf, 1, first - 1)

RECURSIVE strlen(_)
strlen(str) == IF str[1] # NUL THEN strlen(Tail(str)) + 1 ELSE 0

AllLiterals == UNION {[1..k -> Alphabet] : k \in 0..MaxLen}

-----------------------------------------------------------------------------
(* The build switch ARDUINOTRACE_ENABLE_FULLPATH *)

\* #ifndef ... #define 0 ... #else ... #define 1
EnableFullpath(def) == IF def = "unset" THEN 0 ELSE 1

-----------------------------------------------------------------------------
(* string_maker: the primary template and its partial specializations *)

\* string_maker<TSourceString, remainingLength, '/', collectedChars...>
MatchSlash(n, cs, fullpath) == fullpath = 0 /\ cs # <<>> /\ Head(cs) = "/"

\* string_maker<TSourceString, remainingLength, '\\', collectedChars...>
MatchBackslash(n, cs, fullpath) == fullpath = 0 /\ cs # <<>> /\ Head(cs) = "\\"

\* string_maker<TSourceString, 0, collectedChars...>
MatchZero(n, cs) == n = 0

\* The partial specializations whose arguments match. None of the three is
\* more specialized than another, so two matches are an ambiguous
\* instantiation (the program is ill-formed) and no match selects the primary
\* template.
Matching(n, cs, fullpath) ==
  {s \in {"slash"} : MatchSlash(n, cs, fullpath)}
    \cup {s \in {"backslash"} : MatchBackslash(n, cs, fullpath)}
    \cup {s \in {"zero"} : MatchZero(n, cs)}

\* A primary template that appends the character it takes instead of
\* prepending it.
PrimaryCharsAppended(src, n, cs) == cs \o <<src[n]>>

\* The primary template: one more character of the source, taken from its end.
PrimaryChars(src, n, cs) == <<src[n]>> \o cs

\* using result = string<collectedChars..., '\0'> of the separator specializations,
\* whose collectedChars exclude the leading separator.
SeparatorResult(cs) == Tail(cs) \o <<NUL>>

\* using result = string<collectedChars..., '\0'> of the specialization for 0.
ZeroResult(cs) == cs \o <<NUL>>

\* string_maker<...>::result, instantiated to the end: the array of the result,
\* or no result when the instantiation is ambiguous.
RECURSIVE string_maker(_, _, _, _)
string_maker(src, n, cs, fullpath) ==
  LET m == Matching(n, cs, fullpath)
  IN  IF m = {} THEN string_maker(src, n - 1, PrimaryChars(src, n, cs), fullpath)
      ELSE IF Cardinality(m) > 1 THEN [ok |-> FALSE, data |-> <<>>]
      ELSE IF m = {"zero"} THEN [ok |-> TRUE, data |-> ZeroResult(cs)]
      ELSE [ok |-> TRUE, data |-> SeparatorResult(cs)]

\* make_string<TStringSource>
make_string(src, fullpath) == string_maker(src, strlen(src), <<>>, fullpath)

-----------------------------------------------------------------------------
(* The path trimmer, one template instantiation per step *)

\* No translation unit is being built or run.
PipeIdle ==
  /\ enableDef = "unset"
  /\ file = <<>>
  /\ unit = <<>>
  /\ calls = <<>>
  /\ build = "ok"
  /\ phase = "translate"
  /\ ip = 1
  /\ pc = "enter"
  /\ serialOps = <<>>
  /\ pending = ""
  /\ wire = ""
  /\ ready = FALSE
  /\ polled = FALSE

\* No literal is being trimmed on its own.
TrimIdle ==
  /\ original = <<NUL>>
  /\ source = <<NUL>>
  /\ remainingLength = 0
  /\ collectedChars = <<>>
  /\ inst = "idle"
  /\ result = <<>>
  /\ firstResult = <<>>
  /\ retrimmed = FALSE

TrimInit ==
  /\ fullpathDef \in Switches
  /\ original \in {Literal(s) : s \in AllLiterals}
  /\ source = original
  /\ remainingLength = 0
  /\ collectedChars = <<>>
  /\ inst = "idle"
  /\ result = <<>>
  /\ firstResult = <<>>
  /\ retrimmed = FALSE
  /\ PipeIdle

\* make_string<TStringSource>: string_maker<TStringSource, strlen(data())>
MakeString ==
  /\ inst = "idle"
  /\ inst' = "instantiating"
  /\ remainingLength' = strlen(source)
  /\ collectedChars' = <<>>
  /\ UNCHANGED pipeVars
  /\ UNCHANGED <<fullpathDef, original, source, result, firstResult, retrimmed>>

InstantiatePrimary ==
  /\ inst = "instantiating"
  /\ Matching(remainingLength, collectedChars, EnableFullpath(fullpathDef)) = {}
  /\ remainingLength' = remainingLength - 1
  /\ collectedChars' = PrimaryChars(source, remainingLength, collectedChars)
  /\ UNCHANGED pipeVars
  /\ UNCHANGED <<fullpathDef, original, source, inst, result, firstResult, retrimmed>>

InstantiateSlash ==
  /\ inst = "instantiating"
  /\ Matching(remainingLength, collectedChars, EnableFullpath(fullpathDef)) = {"slash"}
  /\ result' = SeparatorResult(collectedChars)
  /\ inst' = "done"
  /\ UNCHANGED pipeVars
  /\ UNCHANGED <<fullpathDef, original, source, remainingLength, collectedChars,
                 firstResult, retrimmed>>

InstantiateBackslash ==
  /\ inst = "instantiating"
  /\ Matching(remainingLength, collectedChars, EnableFullpath(fullpathDef)) = {"backslash"}
  /\ result' = SeparatorResult(collectedChars)
  /\ inst' = "done"
  /\ UNCHANGED pipeVars
  /\ UNCHANGED <<fullpathDef, original, source, remainingLength, collectedChars,
                 firstResult, retrimmed>>

InstantiateZero ==
  /\ inst = "instantiating"
  /\ Matching(remainingLength, collectedChars, EnableFullpath(fullpathDef)) = {"zero"}
  /\ result' = ZeroResult(collectedChars)
  /\ inst' = "done"
  /\ UNCHANGED pipeVars
  /\ UNCHANGED <<fullpathDef, original, source, remainingLength, collectedChars,
                 firstResult, retrimmed>>

\* Two partial specializations match and neither is more specialized.
InstantiateAmbiguous ==
  /\ inst = "instantiating"
  /\ Cardinality(Matching(remainingLength, collectedChars,
                          EnableFullpath(fullpathDef))) > 1
  /\ inst' = "ambiguous"
  /\ UNCHANGED pipeVars
  /\ UNCHANGED <<fullpathDef, original, source, remainingLength, collectedChars,
                 result, firstResult, retrimmed>>

\* make_string applied to a source whose data() is the first result.
Retrim ==
  /\ inst = "done"
  /\ ~retrimmed
  /\ retrimmed' = TRUE
  /\ firstResult' = result
  /\ source' = result
  /\ inst' = "idle"
  /\ UNCHANGED pipeVars
  /\ UNCHANGED <<fullpathDef, original, remainingLength, collectedChars, result>>

TrimNext ==
  \/ MakeString
  \/ InstantiatePrimary
  \/ InstantiateSlash
  \/ InstantiateBackslash
  \/ InstantiateZero
  \/ InstantiateAmbiguous
  \/ Retrim

TrimSpec == TrimInit /\ [][TrimNext]_vars

-----------------------------------------------------------------------------
(* The build switch ARDUINOTRACE_ENABLE and the call-site macros *)

\* Most call sites of one translation unit.
MaxSites == 2

\* __PRETTY_FUNCTION__ at every call site of the unit.
Function == "void loop()"

\* What println writes after its text.
EOL == "\n"

\* __FILE__ of the unit: in a directory, directly under the root, or relative.
Files == {<<"d", "/", "m">>, <<"/", "m">>, <<"m">>}

\* A macro argument: its spelling in the source and what it prints as.
Arg(src, val) == [src |-> src, val |-> val]
Message(text) == Arg("\"" \o text \o "\"", text)
FileArg == Arg("__FILE__ \":\"", "")
LineArg == Arg("__LINE__", "")
FunctionArg == Arg("__PRETTY_FUNCTION__", "")

Site(macro, args) == [macro |-> macro, args |-> args]

\* The call sites a unit may hold.
Sites ==
  { Site("TRACE", <<>>),
    Site("DEBUG", <<Message("")>>),
    Site("DEBUG", <<Message("m")>>),
    Site("DUMP", <<Arg("x", "7")>>),
    Site("THROW", <<Message("m")>>),
    Site("THROW_DUMP", <<Message("m"), Arg("x", "7")>>),
    Site("PRINT", <<Message("p")>>),
    Site("PRINTLN", <<Message("p")>>),
    Site("ARDUINOTRACE_INIT", <<Arg("9600", "9600")>>),
    Site("ARDUINOTRACE_PRINT",
         <<Message("> "), FileArg, LineArg, FunctionArg, Message(""), Arg("x", "7")>>) }

\* #ifndef ARDUINOTRACE_ENABLE / #define ARDUINOTRACE_ENABLE 1
Enable(def) == IF def = "unset" THEN 1 ELSE IF def = "1" THEN 1 ELSE 0

\* #if ARDUINOTRACE_ENABLE == 1
TracingEnabled(def) == Enable(def) = 1

\* One #define: the macro's name, its number of parameters, its replacement.
Define(name, params, body) == [name |-> name, params |-> params, body |-> body]

\* The #defines of the enabled branch, in source order.
EnabledDefines ==
  << Define("ARDUINOTRACE_PRINT", 6, "ARDUINOTRACE_PRINT"),
     Define("TRACE", 0, "TRACE"),
     Define("DEBUG", 1, "DEBUG"),
     Define("DUMP", 1, "DUMP"),
     Define("THROW", 1, "THROW"),
     Define("THROW_DUMP", 2, "THROW_DUMP"),
     Define("PRINT", 1, "PRINT"),
     Define("PRINTLN", 1, "PRINTLN"),
     Define("ARDUINOTRACE_INIT", 1, "ARDUINOTRACE_INIT") >>

\* The #defines of the #else branch, in source order: THROW is defined twice,
\* the second time with two parameters.
DisabledDefines ==
  << Define("ARDUINOTRACE_INIT", 1, "empty"),
     Define("TRACE", 0, "empty"),
     Define("DUMP", 1, "empty"),
     Define("THROW", 1, "empty"),
     Define("THROW", 2, "empty"),
     Define("DEBUG", 1, "empty") >>

Defines(def) == IF TracingEnabled(def) THEN EnabledDefines ELSE DisabledDefines

\* The definition of a name in force after all #defines: the last one.
Lookup(defs, name) ==
  LET at == {i \in DOMAIN defs : defs[i].name = name}
      last == CHOOSE i \in at : \A j \in at : j <= i
  IN  IF at = {} THEN [defined |-> FALSE, params |-> 0, body |-> ""]
      ELSE [defined |-> TRUE, params |-> defs[last].params, body |-> defs[last].body]

RECURSIVE Join(_)
Join(chars) == IF chars = <<>> THEN "" ELSE Head(chars) \o Join(Tail(chars))

Rejected == [ok |-> FALSE, calls |-> <<>>]
Accepted(cs) == [ok |-> TRUE, calls |-> cs]

Statement(kind, prefix, fragment, line, content, content2) ==
  [kind |-> kind, prefix |-> prefix, file |-> fragment, line |-> line,
   function |-> Function, content |-> content, content2 |-> content2]

\* ARDUINOTRACE_PRINT(prefix, file, line, function, content, content2): a
\* Printer<__file> whose __file::data() is __FILE__ ":", which instantiates
\* make_string<__file>.
PrinterStatement(fullpath, path, line, prefix, content, content2) ==
  LET trimmed == make_string(Literal(path \o <<":">>), EnableFullpath(fullpath))
  IN  IF ~trimmed.ok THEN Rejected
      ELSE Accepted(<<Statement("Printer", prefix, Join(CStr(trimmed.data)), line,
                                content, content2)>>)

\* The statements a call of a macro expands to under the build's #defines, or
\* its rejection: the name is not defined, the number of arguments is not the
\* macro's, or the expansion is ill-formed.
\* THROW_DUMP with the dump before the error.
DumpThenThrow(throw, dump) == dump \o throw

\* THROW_DUMP(message, variable): THROW(message) DUMP(variable)
ThrowThenDump(throw, dump) == throw \o dump

RECURSIVE Expand(_, _, _, _, _, _)
Expand(enable, fullpath, path, line, macro, args) ==
  LET d == Lookup(Defines(enable), macro)
  IN  IF ~d.defined \/ d.params # Len(args) THEN Rejected
      ELSE CASE d.body = "empty" -> Accepted(<<>>)
             [] d.body = "ARDUINOTRACE_PRINT" ->
                  PrinterStatement(fullpath, path, line,
                                   args[1].val, args[5].val, args[6].val)
             [] d.body = "TRACE" ->
                  PrinterStatement(fullpath, path, line, "    ", "", "")
             [] d.body = "DEBUG" ->
                  PrinterStatement(fullpath, path, line, "    ", args[1].val, "")
             [] d.body = "DUMP" ->
                  PrinterStatement(fullpath, path, line, "    ",
                                   args[1].src \o " = ", args[1].val)
             [] d.body = "THROW" ->
                  PrinterStatement(fullpath, path, line, "******* ERROR: ",
                                   args[1].val, "")
             [] d.body = "THROW_DUMP" ->
                  LET t == Expand(enable, fullpath, path, line, "THROW", <<args[1]>>)
                      u == Expand(enable, fullpath, path, line, "DUMP", <<args[2]>>)
                  IN  IF t.ok /\ u.ok THEN Accepted(ThrowThenDump(t.calls, u.calls)) ELSE Rejected
             [] d.body = "PRINT" ->
                  Accepted(<<Statement("print", "", "", line, args[1].val, "")>>)
             [] d.body = "PRINTLN" ->
                  Accepted(<<Statement("println", "", "", line, args[1].val, "")>>)
             [] d.body = "ARDUINOTRACE_INIT" ->
                  Accepted(<<Statement("Initializer", "", "", line, args[1].val, "")>>)

-----------------------------------------------------------------------------
(* Translating a unit's call sites, then running what they expanded to *)

Init ==
  /\ fullpathDef \in Switches
  /\ enableDef \in Switches
  /\ file \in Files
  /\ unit = <<>>
  /\ calls = <<>>
  /\ build = "ok"
  /\ phase = "translate"
  /\ ip = 1
  /\ pc = "enter"
  /\ serialOps = <<>>
  /\ pending = ""
  /\ wire = ""
  /\ ready = FALSE
  /\ polled = FALSE
  /\ TrimIdle

runVars == <<ip, pc, serialOps, pending, wire, ready, polled>>
configVars == <<fullpathDef, enableDef, file>>

\* The next call site of the unit is well-formed: its statements are compiled.
TranslateSite(site) ==
  LET e == Expand(enableDef, fullpathDef, file, Len(unit) + 1, site.macro, site.args)
  IN  /\ phase = "translate"
      /\ build = "ok"
      /\ Len(unit) < MaxSites
      /\ e.ok
      /\ unit' = Append(unit, site)
      /\ calls' = calls \o e.calls
      /\ UNCHANGED <<build, phase, runVars, configVars, trimVars>>

\* The next call site of the unit is ill-formed: the unit does not build.
RejectSite(site) ==
  LET e == Expand(enableDef, fullpathDef, file, Len(unit) + 1, site.macro, site.args)
  IN  /\ phase = "translate"
      /\ build = "ok"
      /\ Len(unit) < MaxSites
      /\ ~e.ok
      /\ unit' = Append(unit, site)
      /\ build' = "error"
      /\ UNCHANGED <<calls, phase, runVars, configVars, trimVars>>

\* The unit has built: the program starts.
Start ==
  /\ phase = "translate"
  /\ build = "ok"
  /\ phase' = "run"
  /\ UNCHANGED <<unit, calls, build, runVars, configVars, trimVars>>

Running(kind, at) ==
  /\ phase = "run"
  /\ ip <= Len(calls)
  /\ calls[ip].kind = kind
  /\ pc = at

\* serial.print(text) / serial.println(text), as the stream sees them.
SerialWrite(op, text) ==
  /\ serialOps' = Append(serialOps, [op |-> op, text |-> text, call |-> ip])
  /\ pending' = pending \o text \o (IF op = "println" THEN EOL ELSE "")
  /\ UNCHANGED <<wire, ready, polled>>

\* serial.flush(), as the stream sees it.
SerialFlush ==
  /\ serialOps' = Append(serialOps, [op |-> "flush", text |-> "", call |-> ip])
  /\ wire' = wire \o pending
  /\ pending' = ""
  /\ UNCHANGED <<ready, polled>>

fixed == <<unit, calls, build, phase, configVars, trimVars>>

\* Printer::Printer, one statement per step.

\* A test of the label that takes every label for a non-empty one.
AnyContent(content) == TRUE

\* if(content[0])
HasContent(content) == content # ""

\* serial.print(prefix);
PrintPrefix ==
  /\ Running("Printer", "enter")
  /\ SerialWrite("print", calls[ip].prefix)
  /\ pc' = "file"
  /\ UNCHANGED <<ip, fixed>>

\* serial.print(make_string<TFile>{}.data());
PrintFile ==
  /\ Running("Printer", "file")
  /\ SerialWrite("print", calls[ip].file)
  /\ pc' = "line"
  /\ UNCHANGED <<ip, fixed>>

\* serial.print(line);
PrintLine ==
  /\ Running("Printer", "line")
  /\ SerialWrite("print", ToString(calls[ip].line))
  /\ pc' = "colon"
  /\ UNCHANGED <<ip, fixed>>

\* serial.print(": ");
PrintColon ==
  /\ Running("Printer", "colon")
  /\ SerialWrite("print", ": ")
  /\ pc' = "branch"
  /\ UNCHANGED <<ip, fixed>>

\* if(content[0]) serial.print(function);
PrintFunction ==
  /\ Running("Printer", "branch")
  /\ HasContent(calls[ip].content)
  /\ SerialWrite("print", calls[ip].function)
  /\ pc' = "separator"
  /\ UNCHANGED <<ip, fixed>>

\* serial.print(": ");
PrintSeparator ==
  /\ Running("Printer", "separator")
  /\ SerialWrite("print", ": ")
  /\ pc' = "content"
  /\ UNCHANGED <<ip, fixed>>

\* serial.print(content);
PrintContent ==
  /\ Running("Printer", "content")
  /\ SerialWrite("print", calls[ip].content)
  /\ pc' = "content2"
  /\ UNCHANGED <<ip, fixed>>

\* serial.println(content2);
PrintlnContent2 ==
  /\ Running("Printer", "content2")
  /\ SerialWrite("println", calls[ip].content2)
  /\ pc' = "flush"
  /\ UNCHANGED <<ip, fixed>>

\* else serial.println(function);
PrintlnFunction ==
  /\ Running("Printer", "branch")
  /\ ~HasContent(calls[ip].content)
  /\ SerialWrite("println", calls[ip].function)
  /\ pc' = "flush"
  /\ UNCHANGED <<ip, fixed>>

\* A constructor that returns without flushing.
ReturnUnflushed ==
  /\ Running("Printer", "flush")
  /\ ip' = ip + 1
  /\ pc' = "enter"
  /\ UNCHANGED <<serialOps, pending, wire, ready, polled, fixed>>

\* serial.flush(); and the constructor returns.
Flush ==
  /\ Running("Printer", "flush")
  /\ SerialFlush
  /\ ip' = ip + 1
  /\ pc' = "enter"
  /\ UNCHANGED fixed

\* PRINT(message): Serial.print(String() + message), on the stream the
\* traces go to (ARDUINOTRACE_SERIAL is Serial unless the build says otherwise).
SerialPrint ==
  /\ Running("print", "enter")
  /\ SerialWrite("print", calls[ip].content)
  /\ ip' = ip + 1
  /\ UNCHANGED <<pc, fixed>>

\* PRINTLN(message): Serial.println(String() + message)
SerialPrintln ==
  /\ Running("println", "enter")
  /\ SerialWrite("println", calls[ip].content)
  /\ ip' = ip + 1
  /\ UNCHANGED <<pc, fixed>>

\* Initializer::Initializer: serial.begin(bauds); the stream starts, ready or
\* not yet.
Begin ==
  /\ Running("Initializer", "enter")
  /\ serialOps' = Append(serialOps, [op |-> "begin", text |-> calls[ip].content,
                                      call |-> ip])
  /\ ready' \in BOOLEAN
  /\ polled' = FALSE
  /\ pc' = "poll"
  /\ UNCHANGED <<ip, pending, wire, fixed>>

\* A wait loop that ends whatever the stream answers.
LoopEndsAnyway(answer) == TRUE

\* Whether the loop while (!serial) continue; ends on this answer of the stream.
LoopEnds(answer) == answer

\* while (!serial) continue; one evaluation of the condition.
Poll ==
  /\ Running("Initializer", "poll")
  /\ IF LoopEnds(ready)
       THEN ip' = ip + 1 /\ pc' = "enter" /\ polled' = FALSE
       ELSE polled' = TRUE /\ UNCHANGED <<ip, pc>>
  /\ UNCHANGED <<serialOps, pending, wire, ready, fixed>>

\* The monitoring side connects while the Initializer waits.
Connect ==
  /\ Running("Initializer", "poll")
  /\ ~ready
  /\ ready' = TRUE
  /\ UNCHANGED <<ip, pc, serialOps, pending, wire, polled, fixed>>

\* The monitoring side goes away while the Initializer waits.
Disconnect ==
  /\ Running("Initializer", "poll")
  /\ ready
  /\ ready' = FALSE
  /\ UNCHANGED <<ip, pc, serialOps, pending, wire, polled, fixed>>

\* One step of the program's single thread.
Run ==
  \/ PrintPrefix
  \/ PrintFile
  \/ PrintLine
  \/ PrintColon
  \/ PrintFunction
  \/ PrintSeparator
  \/ PrintContent
  \/ PrintlnContent2
  \/ PrintlnFunction
  \/ Flush
  \/ SerialPrint
  \/ SerialPrintln
  \/ Begin
  \/ Poll

Next ==
  \/ \E site \in Sites : TranslateSite(site)
  \/ \E site \in Sites : RejectSite(site)
  \/ Start
  \/ PrintPrefix
  \/ PrintFile
  \/ PrintLine
  \/ PrintColon
  \/ PrintFunction
  \/ PrintSeparator
  \/ PrintContent
  \/ PrintlnContent2
  \/ PrintlnFunction
  \/ Flush
  \/ SerialPrint
  \/ SerialPrintln
  \/ Begin
  \/ Poll
  \/ Connect
  \/ Disconnect

Spec == Init /\ [][Next]_vars

\* The program's single thread keeps running: it never stops between two
\* statements, and the wait loop keeps evaluating its condition.
FairSpec == Spec /\ WF_vars(Run)

-----------------------------------------------------------------------------
(* What the specification says of the path trimmer *)

\* The substring strictly after the last separator, or the whole text when it
\* holds no separator.
AfterLastSeparator(s) ==
  LET at == {i \in 1..Len(s) : s[i] \in Separators}
      last == CHOOSE i \in at : \A j \in at : j <= i
  IN  IF at = {} THEN s ELSE SubSeq(s, last + 1, Len(s))

\* The first trimming of the literal has ended, with a result or without one.
FirstTrimEnded == ~retrimmed /\ inst \in {"done", "ambiguous"}

\* C1: in basename-only mode every literal is trimmed to exactly one result,
\* the text after its last separator (the whole text when it has none).
C1_TrimYieldsBasename ==
  (EnableFullpath(fullpathDef) = 0 /\ FirstTrimEnded)
    => /\ inst = "done"
       /\ CStr(result) = AfterLastSeparator(CStr(original))

\* C7: the switch selects by its value: basename-only when unset or set to
\* 0, full path only when set to 1.
C7_SwitchSelectsByValue ==
  (~retrimmed /\ inst = "done")
    => /\ fullpathDef \in {"unset", "0"}
            => CStr(result) = AfterLastSeparator(CStr(original))
       /\ fullpathDef = "1" => CStr(result) = CStr(original)

\* C8: in basename-only mode trimming is idempotent for every literal: the
\* first trimming has a result, and trimming that result yields it again.
C8_TrimIdempotent ==
  EnableFullpath(fullpathDef) = 0
    => /\ FirstTrimEnded => inst = "done"
       /\ (retrimmed /\ inst \in {"done", "ambiguous"})
            => inst = "done" /\ result = firstResult

\* The part of C1 that the code keeps: a first trimming that is instantiated
\* yields the text after the last separator.
TrimBasenameWhenInstantiated ==
  (EnableFullpath(fullpathDef) = 0 /\ ~retrimmed /\ inst = "done")
    => CStr(result) = AfterLastSeparator(CStr(original))

\* The part of C8 that the code keeps: trimming a result yields it again.
TrimIdempotentWhenInstantiated ==
  (EnableFullpath(fullpathDef) = 0 /\ retrimmed /\ inst \in {"done", "ambiguous"})
    => inst = "done" /\ result = firstResult

\* C9: in full-path mode the trimmer is the identity: every instantiation
\* ends with a result, and the result is the input, character for character.
C9_FullpathIdentity ==
  (EnableFullpath(fullpathDef) = 1 /\ inst \in {"done", "ambiguous"})
    => inst = "done" /\ result = original

\* C9's case: a literal of separators only (first, last and consecutive),
\* trimmed in full-path mode.
C9_Witness ==
  /\ EnableFullpath(fullpathDef) = 1
  /\ inst = "done"
  /\ CStr(original) = <<"/", "/", "\\">>

-----------------------------------------------------------------------------
(* What the specification says of the macros, the emitter and the initializer *)

\* The stream operations statement k has performed so far.
OpsOf(k) ==
  LET ByK(o) == o.call = k
  IN  SelectSeq(serialOps, ByK)

IsWrite(o) == o.op \in {"print", "println"}

\* The print and println operations among ops.
WritesOf(ops) == SelectSeq(ops, IsWrite)

\* The text a sequence of stream operations writes.
RECURSIVE Written(_)
Written(ops) ==
  IF ops = <<>> THEN ""
  ELSE (CASE Head(ops).op = "print" -> Head(ops).text
          [] Head(ops).op = "println" -> Head(ops).text \o EOL
          [] OTHER -> "")
       \o Written(Tail(ops))

IsPrefix(a, b) == Len(a) <= Len(b) /\ SubSeq(b, 1, Len(a)) = a

\* Statement k is a call of the trace emitter that has returned / is running.
Emitted(k) == phase = "run" /\ calls[k].kind = "Printer" /\ k < ip
Emitting(k) == phase = "run" /\ calls[k].kind = "Printer" /\ k = ip

Wr(op, text, k) == [op |-> op, text |-> text, call |-> k]

\* The writes the specification gives a call of the trace emitter.
SpecifiedWrites(k) ==
  LET c == calls[k]
  IN  << Wr("print", c.prefix, k), Wr("print", c.file, k),
         Wr("print", ToString(c.line), k), Wr("print", ": ", k) >>
      \o (IF c.content # ""
            THEN << Wr("print", c.function, k), Wr("print", ": ", k),
                    Wr("print", c.content, k), Wr("println", c.content2, k) >>
            ELSE << Wr("println", c.function, k) >>)

\* C2: every call of the trace emitter writes prefix, file fragment, line and
\* ": ", then function, ": ", label, value and a line terminator when the
\* label is non-empty, and function and a line terminator only (never the
\* value) when the label is empty.
C2_EmitterWrites ==
  \A k \in 1..Len(calls) :
    /\ Emitted(k) => WritesOf(OpsOf(k)) = SpecifiedWrites(k)
    /\ Emitting(k) => IsPrefix(WritesOf(OpsOf(k)), SpecifiedWrites(k))

\* C2's case: a call with an empty label and a value, and a call with a
\* label, have both returned.
C2_Witness ==
  /\ \E k \in 1..Len(calls) :
       Emitted(k) /\ calls[k].content = "" /\ calls[k].content2 = "7"
  /\ \E k \in 1..Len(calls) :
       Emitted(k) /\ calls[k].content # "" /\ calls[k].content2 = "7"

\* The positions of the flushes among ops.
Flushes(ops) == {i \in 1..Len(ops) : ops[i].op = "flush"}

\* C3: every call of the trace emitter flushes exactly once, as its last
\* stream operation and after the line terminator was written, in both
\* branches; when the call has just returned nothing written is unflushed.
C3_FlushLast ==
  /\ \A k \in 1..Len(calls) :
       /\ Emitted(k) =>
            LET ops == OpsOf(k)
            IN  /\ Flushes(ops) = {Len(ops)}
                /\ Len(ops) >= 2
                /\ ops[Len(ops) - 1].op = "println"
       /\ Emitting(k) => Flushes(OpsOf(k)) = {}
  /\ (phase = "run" /\ ip > 1 /\ pc = "enter" /\ calls[ip - 1].kind = "Printer")
       => pending = ""

\* C3's case: a call of each branch has returned, the second after text was
\* written without a flush by PRINT.
C3_Witness ==
  /\ phase = "run"
  /\ Len(calls) = 2
  /\ ip = 3
  /\ calls[1].kind = "print"
  /\ calls[2].kind = "Printer"
  /\ calls[2].content # ""
  /\ wire # ""

OfferedMacros ==
  {"ARDUINOTRACE_INIT", "TRACE", "DEBUG", "DUMP", "THROW", "THROW_DUMP",
   "PRINT", "PRINTLN"}

\* C4: with tracing disabled, every macro the enabled configuration offers is
\* defined and a no-op: whatever call sites the unit holds it builds, and no
\* stream operation is ever performed.
C4_DisabledMacrosAreNoOps ==
  (~TracingEnabled(enableDef) /\ \A i \in 1..Len(unit) : unit[i].macro \in OfferedMacros)
    => /\ build = "ok"
       /\ serialOps = <<>>
       /\ pending = ""
       /\ wire = ""

\* The part of C4 that the code keeps: with tracing disabled nothing is
\* compiled in and the stream is never used.
DisabledPerformsNothing ==
  ~TracingEnabled(enableDef) => calls = <<>> /\ serialOps = <<>>

\* Statement k is a call of the stream initializer that has returned.
Initialized(k) == phase = "run" /\ calls[k].kind = "Initializer" /\ k < ip
InInitializer == phase = "run" /\ ip <= Len(calls) /\ calls[ip].kind = "Initializer"
SomeInitialized == \E k \in 1..Len(calls) : Initialized(k)

\* begin(speed) is called exactly once per initializer call, before its first poll.
BeginsOnceBeforePolling ==
  /\ \A k \in 1..Len(calls) :
       Initialized(k) => OpsOf(k) = <<Wr("begin", calls[k].content, k)>>
  /\ InInitializer =>
       /\ pc = "enter" => OpsOf(ip) = <<>>
       /\ pc = "poll" => OpsOf(ip) = <<Wr("begin", calls[ip].content, ip)>>
  /\ polled => InInitializer /\ pc = "poll"

\* The initializer returns only from a state in which the stream reports ready.
ReturnsOnlyWhenReady == InInitializer /\ ip' # ip => ready /\ pc = "poll"

\* C5: the stream initializer calls begin(speed) exactly once, before the first
\* poll; it returns only when the stream reports ready; it returns eventually
\* if the stream is eventually (and from then on) ready; and it never returns
\* if the stream is never ready.
C5_InitializerWaits ==
  /\ []BeginsOnceBeforePolling
  /\ [][ReturnsOnlyWhenReady]_vars
  /\ (<>[]ready) => [](InInitializer => <>(~InInitializer))
  /\ ([]~ready) => []~SomeInitialized

\* C5's case: one initializer has returned and a second one has polled a
\* stream that is not ready.
C5_Witness ==
  /\ SomeInitialized
  /\ InInitializer
  /\ polled
  /\ ~ready

TraceMacros == {"TRACE", "DEBUG", "DUMP", "THROW", "THROW_DUMP"}

\* The line n, function f call site of a marker is specified to emit in
\* basename mode, after its prefix.
SpecifiedLine(prefix, n, rest) ==
  prefix \o Join(AfterLastSeparator(file)) \o ":" \o ToString(n) \o ": "
    \o Function \o rest \o EOL

\* The lines the statements of the call site at line n have written.
LinesOfSite(n) ==
  LET FromSite(k) == calls[k].line = n /\ calls[k].kind = "Printer"
      ks == SelectSeq([k \in 1..Len(calls) |-> k], FromSite)
  IN  [j \in 1..Len(ks) |-> Written(OpsOf(ks[j]))]

SiteDone(n) ==
  /\ phase = "run"
  /\ \A k \in 1..Len(calls) : calls[k].line = n => k < ip

\* What the markers emit, for the call sites that were compiled and have run.
MarkersEmit ==
  \A n \in 1..Len(unit) :
    SiteDone(n) =>
      LET s == unit[n]
      IN  /\ s.macro = "TRACE" => LinesOfSite(n) = <<SpecifiedLine("    ", n, "")>>
          /\ s.macro = "DUMP" =>
               LinesOfSite(n) = <<SpecifiedLine("    ", n,
                                    ": " \o s.args[1].src \o " = " \o s.args[1].val)>>
          /\ (s.macro = "DEBUG" /\ s.args[1].val # "") =>
               LinesOfSite(n) = <<SpecifiedLine("    ", n, ": " \o s.args[1].val)>>
          /\ (s.macro = "THROW" /\ s.args[1].val # "") =>
               LinesOfSite(n) = <<SpecifiedLine("******* ERROR: ", n,
                                                ": " \o s.args[1].val)>>

\* C6: in basename mode, for every call site (every file path, line and
\* function), TRACE emits four spaces, the final path component, ':', the
\* line, ': ', the function and a line terminator; DUMP the same with
\* ': v = x' before the terminator; THROW with a message the line of DEBUG
\* with '******* ERROR: ' in place of the four spaces.
C6_MarkersEmitBasenameLines ==
  (TracingEnabled(enableDef) /\ EnableFullpath(fullpathDef) = 0)
    => /\ build = "ok"
       /\ MarkersEmit

\* The part of C6 that the code keeps: the lines of the call sites that compile.
C6_LinesWhenBuilt ==
  (TracingEnabled(enableDef) /\ EnableFullpath(fullpathDef) = 0) => MarkersEmit

Record(n, prefix) == [site |-> n, prefix |-> prefix]

\* The trace records the call sites of the unit are specified to produce, in
\* order: one per TRACE, DEBUG, DUMP and THROW, two per THROW_DUMP (the error
\* first), and what ARDUINOTRACE_PRINT is given.
RECURSIVE SpecifiedRecords(_)
SpecifiedRecords(n) ==
  IF n = 0 THEN <<>>
  ELSE SpecifiedRecords(n - 1) \o
       (CASE unit[n].macro \in {"TRACE", "DEBUG", "DUMP"} -> <<Record(n, "    ")>>
          [] unit[n].macro = "THROW" -> <<Record(n, "******* ERROR: ")>>
          [] unit[n].macro = "THROW_DUMP" ->
               <<Record(n, "******* ERROR: "), Record(n, "    ")>>
          [] unit[n].macro = "ARDUINOTRACE_PRINT" -> <<Record(n, unit[n].args[1].val)>>
          [] OTHER -> <<>>)

\* The trace records the stream has received in full, in the order of their
\* first operation in the log.
ReceivedRecords ==
  LET Complete(o) == calls[o.call].kind = "Printer" /\ o.call < ip
      IsFirst(i) == \A j \in 1..(i - 1) : serialOps[j].call # serialOps[i].call
      firsts == {i \in 1..Len(serialOps) : Complete(serialOps[i]) /\ IsFirst(i)}
      RECURSIVE InOrder(_)
      InOrder(S) ==
        IF S = {} THEN <<>>
        ELSE LET i == CHOOSE x \in S : \A y \in S : x <= y
             IN  <<Record(calls[serialOps[i].call].line, serialOps[i].text)>>
                   \o InOrder(S \ {i})
  IN  InOrder(firsts)

\* C10: with tracing enabled, the stream receives one complete record per
\* TRACE, DEBUG, DUMP or THROW invocation and two per THROW_DUMP (error, then
\* dump), in invocation order; each record's operations are contiguous, with
\* exactly one println, its last write, followed by its flush before the next
\* record's first write.
C10_RecordsInOrder ==
  (TracingEnabled(enableDef) /\ phase = "run") =>
    /\ \A i, j \in 1..Len(serialOps) :
         (i < j /\ serialOps[i].call = serialOps[j].call)
           => \A m \in i..j : serialOps[m].call = serialOps[i].call
    /\ \A k \in 1..Len(calls) :
         Emitted(k) =>
           LET ops == OpsOf(k)
               lns == {i \in 1..Len(ops) : ops[i].op = "println"}
           IN  /\ lns = {Len(ops) - 1}
               /\ ops[Len(ops)].op = "flush"
    /\ IsPrefix(ReceivedRecords, SpecifiedRecords(Len(unit)))
    /\ ip > Len(calls) => ReceivedRecords = SpecifiedRecords(Len(unit))

\* C10's case: a THROW_DUMP and a TRACE have run to the end, in that order.
C10_Witness ==
  /\ TracingEnabled(enableDef)
  /\ phase = "run"
  /\ ip > Len(calls)
  /\ Len(unit) = 2
  /\ unit[1].macro = "THROW_DUMP"
  /\ unit[2].macro = "TRACE"
  /\ Len(ReceivedRecords) = 3

=============================================================================
